---- MODULE Spec2Model ----
(***************************************************************************)
(* Line-detection pipeline of src/Line_detection.py (the base variant,     *)
(* parameters min_val and max_val) and src/line_follower_main.py (the      *)
(* extended variant, which adds hough_threshold, min_line_length,          *)
(* max_line_gap and rho).  Both programs have the same shape: main() loads *)
(* the configuration, opens the camera, starts the FrameProcessor thread   *)
(* and then captures frames into a queue.Queue while it copies the         *)
(* trackbar positions into the shared config dict under config_lock;       *)
(* FrameProcessor.run pops frames, reads the config under the same lock,   *)
(* renders, and stops on the quit key.                                     *)
(*                                                                         *)
(* rho is a float in the program.  It is kept here as an integer number of *)
(* hundredths (1.0 is 100, 0.01 is 1), the unit of the rho trackbar.       *)
(***************************************************************************)
EXTENDS Integers, Sequences, FiniteSets, TLC

\* ------------------------------------------------------------------ bounds

\* The camera delivers at most MaxFrames frames before its stream ends.
MaxFrames == 3

\* ------------------------------------------------------- parameter records

Variants == {"base", "ext"}

BaseKeys == <<"min_val", "max_val">>

ExtKeys ==
  <<"min_val", "max_val", "hough_threshold", "min_line_length",
    "max_line_gap", "rho">>

\* The keys of the config dict, in the order main() writes them and run()
\* reads them.
Keys(v) == IF v = "base" THEN BaseKeys ELSE ExtKeys

KeySet(v) == {Keys(v)[i] : i \in 1..Len(Keys(v))}

\* default_config of load_config.
DefaultConfig(v) ==
  IF v = "base"
    THEN [k \in KeySet("base") |-> IF k = "min_val" THEN 0 ELSE 255]
    ELSE [k \in KeySet("ext") |->
            CASE k = "min_val" -> 0
              [] k = "max_val" -> 255
              [] k = "hough_threshold" -> 50
              [] k = "min_line_length" -> 10
              [] k = "max_line_gap" -> 5
              [] OTHER -> 100]

\* The count (largest position) each trackbar is created with.
TrackbarCount(k) ==
  CASE k = "min_val" -> 255
    [] k = "max_val" -> 255
    [] k = "hough_threshold" -> 255
    [] k = "min_line_length" -> 100
    [] k = "max_line_gap" -> 50
    [] OTHER -> 1000

\* ------------------------------------------------------ configuration file

\* config.json: absent, not parseable, or a JSON object of numbers.
NoFields == [k \in {} |-> 0]

AbsentFile == [kind |-> "absent", fields |-> NoFields]

MalformedFile == [kind |-> "malformed", fields |-> NoFields]

MapFile(f) == [kind |-> "map", fields |-> f]

\* load_config of the base variant with the range test written with strict
\* comparisons (0 < v < 255).
load_config_base_strict(file) ==
  IF file.kind = "map"
       /\ {"min_val", "max_val"} \subseteq DOMAIN file.fields
       /\ 0 < file.fields["min_val"] /\ file.fields["min_val"] < 255
       /\ 0 < file.fields["max_val"] /\ file.fields["max_val"] < 255
    THEN file.fields
    ELSE DefaultConfig("base")

\* load_config of the base variant: the file's dict when min_val and max_val
\* are both present and within 0..255, the defaults otherwise (a missing key
\* raises KeyError, which the except clause turns into the defaults).
load_config_base(file) ==
  IF file.kind = "map"
       /\ {"min_val", "max_val"} \subseteq DOMAIN file.fields
       /\ 0 <= file.fields["min_val"] /\ file.fields["min_val"] <= 255
       /\ 0 <= file.fields["max_val"] /\ file.fields["max_val"] <= 255
    THEN file.fields
    ELSE DefaultConfig("base")

\* load_config of the extended variant: the file's dict when every key of
\* default_config is present, the defaults otherwise.  No value is compared
\* with any range.
load_config_ext(file) ==
  IF file.kind = "map" /\ KeySet("ext") \subseteq DOMAIN file.fields
    THEN file.fields
    ELSE DefaultConfig("ext")

load_config(v, file) ==
  IF v = "base" THEN load_config_base(file) ELSE load_config_ext(file)

\* save_config called with its two arguments in the wrong order.
save_config_swapped(v, cfg) ==
  MapFile([cfg EXCEPT !["min_val"] = cfg["max_val"], !["max_val"] = cfg["min_val"]])

\* save_config: json.dump of {"min_val", "max_val"} in the base variant, of
\* the whole config dict in the extended one.
save_config(v, cfg) ==
  IF v = "base"
    THEN MapFile([k \in {"min_val", "max_val"} |-> cfg[k]])
    ELSE MapFile(cfg)

\* ------------------------------------------------------------- environment

\* The positions the operator leaves each trackbar at.
OperatorPositions(k) ==
  CASE k = "min_val" -> {50, 200}
    [] k = "max_val" -> {50, 200}
    [] k = "hough_threshold" -> {0, 50}
    [] k = "min_line_length" -> {10}
    [] k = "max_line_gap" -> {5}
    [] OTHER -> {0, 100}

\* cv2.getTrackbarPos: a position of the slider, which runs from 0 to the
\* count it was created with.
SliderPositions(k) == OperatorPositions(k) \cap (0..TrackbarCount(k))

\* The value main() stores for trackbar position pos: the position itself,
\* and for rho max(0.01, rho_scaled / 100.0).
FromTrackbar(k, pos) ==
  IF k = "rho" THEN (IF pos < 1 THEN 1 ELSE pos) ELSE pos

\* The contents of config.json the pipeline is started with.
StartFiles(v) ==
  IF v = "base"
    THEN { AbsentFile, MalformedFile,
           MapFile([k \in KeySet("base") |-> IF k = "min_val" THEN 50 ELSE 200]),
           MapFile([k \in KeySet("base") |-> IF k = "min_val" THEN 999 ELSE 200]),
           MapFile([k \in {"min_val"} |-> 50]) }
    ELSE { AbsentFile, MalformedFile,
           MapFile([DefaultConfig("ext") EXCEPT !["min_val"] = 50, !["max_val"] = 200]),
           MapFile([DefaultConfig("ext") EXCEPT !["min_val"] = 999]),
           MapFile([DefaultConfig("ext") EXCEPT !["rho"] = 0]),
           MapFile([k \in KeySet("ext") \ {"rho"} |-> DefaultConfig("ext")[k]]) }

\* The numbers a field of config.json holds when load_config is checked on
\* its own: below every range, the ends and the inside of the ranges, above
\* the threshold range.
FileNumbers == {-1, 0, 100, 255, 999}

\* Every config.json over the variant's keys: absent, malformed, or an
\* object holding any subset of the keys with any of FileNumbers.
AllFiles(v) ==
  {AbsentFile, MalformedFile}
    \cup {MapFile(f) : f \in UNION {[S -> FileNumbers] : S \in SUBSET KeySet(v)}}

\* ------------------------------------------------------------------- state

VARIABLES
  variant,     \* which of the two programs runs
  file,        \* config.json
  camera,      \* "closed", "open", "failed" (isOpened() false), "released"
  config,      \* the shared config dict
  lock,        \* config_lock: "free", or the thread holding it
  running,     \* FrameProcessor.running
  queue,       \* frame_queue
  m_pc,        \* main(): position
  m_frame,     \* main(): frame of the last successful camera.read()
  ret,         \* main(): ret of the last camera.read(): "none", "ok", "fail"
  captured,    \* frames the camera has delivered
  m_i,         \* main(): index of the next key written inside the lock
  tb_pos,      \* main(): result of the last cv2.getTrackbarPos
  c_pc,        \* FrameProcessor.run: position
  frame,       \* run(): the frame popped, 0 when none
  snapshot,    \* run(): the locals read from config inside the lock
  key,         \* run(): result of the last cv2.waitKey: "none", "q"
  mask,        \* run(): the two bounds passed to cv2.inRange, << >> when none
  lines,       \* run(): result of cv2.HoughLinesP: "unset", "none", "some"
  drawn,       \* run(): whether cv2.line drew a segment on the frame held
  pushed,      \* history: frames put on the queue, in order
  processed,   \* history: frames rendered by run(), in order
  published,   \* history: config as of main()'s last release of the lock
  snapAt,      \* history: published, as of run()'s last acquire of the lock
  pushedAtStop,\* history: Len(pushed) when running was set to FALSE
  nSaves,      \* history: number of save_config calls
  nUpdates,    \* history: number of updates of config main() has completed
  snapVer      \* history: nUpdates, as of run()'s last acquire of the lock

vars ==
  <<variant, file, camera, config, lock, running, queue, m_pc, m_frame, ret,
    captured, m_i, tb_pos, c_pc, frame, snapshot, key, mask, lines, drawn,
    pushed, processed, published, snapAt, pushedAtStop, nSaves, nUpdates,
    snapVer>>

mainVars == <<m_pc, m_frame, ret, captured, m_i, tb_pos>>

procVars == <<c_pc, frame, snapshot, key, mask, lines, drawn>>

histVars ==
  <<pushed, processed, published, snapAt, pushedAtStop, nSaves, nUpdates,
    snapVer>>

\* The state before main() runs: some program, some config.json among
\* files[variant].
InitFrom(files) ==
  /\ variant \in Variants
  /\ file \in files[variant]
  /\ camera = "closed"
  /\ config = NoFields
  /\ lock = "free"
  /\ running = TRUE
  /\ queue = << >>
  /\ m_pc = "m_load"
  /\ m_frame = 0
  /\ ret = "none"
  /\ captured = 0
  /\ m_i = 1
  /\ tb_pos = 0
  /\ c_pc = "c_idle"
  /\ frame = 0
  /\ snapshot = NoFields
  /\ key = "none"
  /\ mask = << >>
  /\ lines = "unset"
  /\ drawn = FALSE
  /\ pushed = << >>
  /\ processed = << >>
  /\ published = NoFields
  /\ snapAt = NoFields
  /\ pushedAtStop = 0
  /\ nSaves = 0
  /\ nUpdates = 0
  /\ snapVer = 0

Init == InitFrom([v \in Variants |-> StartFiles(v)])

\* ------------------------------------------------------------ queue.Queue

\* Queue.put as a LifoQueue would do it: insert at the head.
QueuePutLifo(q, f) == <<f>> \o q

\* Queue.put: append at the tail.
QueuePut(q, f) == Append(q, f)

\* Queue.get on a non-empty queue: the head.
QueueFront(q) == Head(q)

QueueRest(q) == Tail(q)

\* ------------------------------------------------------------------ main()

\* config = load_config()
M_LoadConfig ==
  /\ m_pc = "m_load"
  /\ config' = load_config(variant, file)
  /\ published' = load_config(variant, file)
  /\ m_pc' = "m_open"
  /\ UNCHANGED <<variant, file, camera, lock, running, queue, m_frame, ret,
                 captured, m_i, tb_pos, procVars, pushed, processed, snapAt,
                 pushedAtStop, nSaves, nUpdates, snapVer>>

\* The isOpened() test without its return: main() goes on after the message.
M_OpenCameraNoReturn ==
  /\ m_pc = "m_open"
  /\ \E opened \in BOOLEAN :
       /\ camera' = IF opened THEN "open" ELSE "failed"
       /\ m_pc' = "m_start"
  /\ UNCHANGED <<variant, file, config, lock, running, queue, m_frame, ret,
                 captured, m_i, tb_pos, procVars, histVars>>

\* camera = cv2.VideoCapture(..); if not camera.isOpened(): return
M_OpenCamera ==
  /\ m_pc = "m_open"
  /\ \E opened \in BOOLEAN :
       IF opened
         THEN camera' = "open" /\ m_pc' = "m_start"
         ELSE camera' = "failed" /\ m_pc' = "m_exit"
  /\ UNCHANGED <<variant, file, config, lock, running, queue, m_frame, ret,
                 captured, m_i, tb_pos, procVars, histVars>>

\* The trackbars are created; frame_processor.start()
M_Start ==
  /\ m_pc = "m_start"
  /\ c_pc' = "c_loop"
  /\ m_pc' = "m_loop"
  /\ UNCHANGED <<variant, file, camera, config, lock, running, queue, m_frame,
                 ret, captured, m_i, tb_pos, frame, snapshot, key, mask, lines,
                 drawn, histVars>>

\* while True: the loop head does not look at frame_processor.running.
M_LoopNoCheck ==
  /\ m_pc = "m_loop"
  /\ m_pc' = "m_read"
  /\ UNCHANGED <<variant, file, camera, config, lock, running, queue, m_frame,
                 ret, captured, m_i, tb_pos, procVars, histVars>>

\* while frame_processor.running:
M_Loop ==
  /\ m_pc = "m_loop"
  /\ m_pc' = IF running THEN "m_read" ELSE "m_join"
  /\ UNCHANGED <<variant, file, camera, config, lock, running, queue, m_frame,
                 ret, captured, m_i, tb_pos, procVars, histVars>>

\* camera.read(frame): every read decodes into the array of the first one.
M_ReadReusesBuffer ==
  /\ m_pc = "m_read"
  /\ \/ /\ captured < MaxFrames
        /\ captured' = captured + 1
        /\ m_frame' = 1
        /\ ret' = "ok"
        /\ m_pc' = "m_put"
     \/ /\ ret' = "fail"
        /\ m_pc' = "m_join"
        /\ UNCHANGED <<captured, m_frame>>
  /\ UNCHANGED <<variant, file, camera, config, lock, running, queue, m_i,
                 tb_pos, procVars, histVars>>

\* ret, frame = camera.read(); if not ret: break
M_Read ==
  /\ m_pc = "m_read"
  /\ \/ /\ captured < MaxFrames
        /\ captured' = captured + 1
        /\ m_frame' = captured + 1
        /\ ret' = "ok"
        /\ m_pc' = "m_put"
     \/ /\ ret' = "fail"
        /\ m_pc' = "m_join"
        /\ UNCHANGED <<captured, m_frame>>
  /\ UNCHANGED <<variant, file, camera, config, lock, running, queue, m_i,
                 tb_pos, procVars, histVars>>

\* put followed by continue: the update of config below it is never reached.
M_PutSkipsUpdate ==
  /\ m_pc = "m_put"
  /\ queue' = QueuePut(queue, m_frame)
  /\ pushed' = Append(pushed, m_frame)
  /\ m_pc' = "m_loop"
  /\ UNCHANGED <<variant, file, camera, config, lock, running, m_frame, ret,
                 captured, m_i, tb_pos, procVars, processed, published, snapAt,
                 pushedAtStop, nSaves, nUpdates, snapVer>>

\* put on a queue.Queue(maxsize=2): it waits while two frames are queued.
M_PutBounded ==
  /\ m_pc = "m_put"
  /\ Len(queue) < 2
  /\ queue' = QueuePut(queue, m_frame)
  /\ pushed' = Append(pushed, m_frame)
  /\ m_pc' = "m_lock"
  /\ UNCHANGED <<variant, file, camera, config, lock, running, m_frame, ret,
                 captured, m_i, tb_pos, procVars, processed, published, snapAt,
                 pushedAtStop, nSaves, nUpdates, snapVer>>

\* frame_queue.put(frame)
M_Put ==
  /\ m_pc = "m_put"
  /\ queue' = QueuePut(queue, m_frame)
  /\ pushed' = Append(pushed, m_frame)
  /\ m_pc' = "m_lock"
  /\ UNCHANGED <<variant, file, camera, config, lock, running, m_frame, ret,
                 captured, m_i, tb_pos, procVars, processed, published, snapAt,
                 pushedAtStop, nSaves, nUpdates, snapVer>>

\* The update of config entered without taking config_lock.
M_AcquireNoLock ==
  /\ m_pc = "m_lock"
  /\ lock' = "main"
  /\ m_i' = 1
  /\ m_pc' = "m_write"
  /\ UNCHANGED <<variant, file, camera, config, running, queue, m_frame, ret,
                 captured, tb_pos, procVars, histVars>>

\* with config_lock: (entry)
M_Acquire ==
  /\ m_pc = "m_lock"
  /\ lock = "free"
  /\ lock' = "main"
  /\ m_i' = 1
  /\ m_pc' = "m_write"
  /\ UNCHANGED <<variant, file, camera, config, running, queue, m_frame, ret,
                 captured, tb_pos, procVars, histVars>>

\* config[k] = cv2.getTrackbarPos(..), one key per step, in program order
M_Write ==
  /\ m_pc = "m_write"
  /\ \E pos \in SliderPositions(Keys(variant)[m_i]) :
       /\ tb_pos' = pos
       /\ config' = [config EXCEPT ![Keys(variant)[m_i]] =
                      FromTrackbar(Keys(variant)[m_i], pos)]
  /\ IF m_i = Len(Keys(variant))
       THEN m_pc' = "m_unlock" /\ m_i' = 1
       ELSE m_pc' = "m_write" /\ m_i' = m_i + 1
  /\ UNCHANGED <<variant, file, camera, lock, running, queue, m_frame, ret,
                 captured, procVars, histVars>>

\* with config_lock: (exit); cv2.waitKey(1)
M_Release ==
  /\ m_pc = "m_unlock"
  /\ lock' = "free"
  /\ published' = config
  /\ nUpdates' = nUpdates + 1
  /\ m_pc' = "m_loop"
  /\ UNCHANGED <<variant, file, camera, config, running, queue, m_frame, ret,
                 captured, m_i, tb_pos, procVars, pushed, processed, snapAt,
                 pushedAtStop, nSaves, snapVer>>

\* main() going on to camera.release() without waiting for the thread.
M_JoinNoWait ==
  /\ m_pc = "m_join"
  /\ m_pc' = "m_release"
  /\ UNCHANGED <<variant, file, camera, config, lock, running, queue, m_frame,
                 ret, captured, m_i, tb_pos, procVars, histVars>>

\* frame_processor.join(): returns once run() has returned
M_Join ==
  /\ m_pc = "m_join"
  /\ c_pc = "c_done"
  /\ m_pc' = "m_release"
  /\ UNCHANGED <<variant, file, camera, config, lock, running, queue, m_frame,
                 ret, captured, m_i, tb_pos, procVars, histVars>>

\* camera.release(); cv2.destroyAllWindows()
M_ReleaseCamera ==
  /\ m_pc = "m_release"
  /\ camera' = "released"
  /\ m_pc' = "m_save"
  /\ UNCHANGED <<variant, file, config, lock, running, queue, m_frame, ret,
                 captured, m_i, tb_pos, procVars, histVars>>

\* save_config(..)
M_Save ==
  /\ m_pc = "m_save"
  /\ file' = save_config(variant, config)
  /\ nSaves' = nSaves + 1
  /\ m_pc' = "m_done"
  /\ UNCHANGED <<variant, camera, config, lock, running, queue, m_frame, ret,
                 captured, m_i, tb_pos, procVars, pushed, processed, published,
                 snapAt, pushedAtStop, nUpdates, snapVer>>

\* ----------------------------------------------------- FrameProcessor.run

\* while self.running:
C_Loop ==
  /\ c_pc = "c_loop"
  /\ c_pc' = IF running THEN "c_empty" ELSE "c_done"
  /\ UNCHANGED <<variant, file, camera, config, lock, running, queue,
                 mainVars, frame, snapshot, key, mask, lines, drawn,
                 histVars>>

\* run() without the emptiness test: get() is called in every iteration.
C_EmptyNoCheck ==
  /\ c_pc = "c_empty"
  /\ c_pc' = "c_get"
  /\ UNCHANGED <<variant, file, camera, config, lock, running, queue,
                 mainVars, frame, snapshot, key, mask, lines, drawn,
                 histVars>>

\* if not self.frame_queue.empty():
C_Empty ==
  /\ c_pc = "c_empty"
  /\ c_pc' = IF queue # << >> THEN "c_get" ELSE "c_loop"
  /\ UNCHANGED <<variant, file, camera, config, lock, running, queue,
                 mainVars, frame, snapshot, key, mask, lines, drawn,
                 histVars>>

\* frame = self.frame_queue.get() (blocks while the queue is empty);
\* gray_frame = cv2.cvtColor(frame, ..)
C_Get ==
  /\ c_pc = "c_get"
  /\ queue # << >>
  /\ frame' = QueueFront(queue)
  /\ queue' = QueueRest(queue)
  /\ c_pc' = "c_lock"
  /\ UNCHANGED <<variant, file, camera, config, lock, running, mainVars,
                 snapshot, key, mask, lines, drawn, histVars>>

\* with self.config_lock: (entry)
C_Acquire ==
  /\ c_pc = "c_lock"
  /\ lock = "free"
  /\ lock' = "proc"
  /\ snapAt' = published
  /\ snapVer' = nUpdates
  /\ c_pc' = "c_snap"
  /\ UNCHANGED <<variant, file, camera, config, running, queue, mainVars,
                 frame, snapshot, key, mask, lines, drawn, pushed, processed,
                 published, pushedAtStop, nSaves, nUpdates>>

\* The key run() reads next inside the lock.
NextKey == Keys(variant)[Cardinality(DOMAIN snapshot) + 1]

\* <local> = self.config[k], one key per step, in program order
C_Snap ==
  /\ c_pc = "c_snap"
  /\ snapshot' = snapshot @@ (NextKey :> config[NextKey])
  /\ c_pc' = IF Cardinality(DOMAIN snapshot) + 1 = Len(Keys(variant))
               THEN "c_unlock" ELSE "c_snap"
  /\ UNCHANGED <<variant, file, camera, config, lock, running, queue,
                 mainVars, frame, key, mask, lines, drawn, histVars>>

\* with self.config_lock: (exit)
C_Release ==
  /\ c_pc = "c_unlock"
  /\ lock' = "free"
  /\ c_pc' = "c_process"
  /\ UNCHANGED <<variant, file, camera, config, running, queue, mainVars,
                 frame, snapshot, key, mask, lines, drawn, histVars>>

\* The mask step with the band put in order first: inRange gets the smaller
\* value as its lower bound.
C_ProcessOrdersBand ==
  /\ c_pc = "c_process"
  /\ mask' = IF snapshot["min_val"] <= snapshot["max_val"]
               THEN <<snapshot["min_val"], snapshot["max_val"]>>
               ELSE <<snapshot["max_val"], snapshot["min_val"]>>
  /\ \E found \in {"none", "some"} :
       /\ lines' = found
       /\ drawn' = (found # "none")
  /\ c_pc' = "c_render"
  /\ UNCHANGED <<variant, file, camera, config, lock, running, queue,
                 mainVars, frame, snapshot, key, histVars>>

\* The mask step storing a corrected band back into the shared dict:
\* self.config["max_val"] = max(min_val, max_val).
C_ProcessWritesBack ==
  /\ c_pc = "c_process"
  /\ mask' = <<snapshot["min_val"], snapshot["max_val"]>>
  /\ config' = [config EXCEPT !["max_val"] =
                  IF snapshot["min_val"] > snapshot["max_val"]
                    THEN snapshot["min_val"] ELSE snapshot["max_val"]]
  /\ \E found \in {"none", "some"} :
       /\ lines' = found
       /\ drawn' = (found # "none")
  /\ c_pc' = "c_render"
  /\ UNCHANGED <<variant, file, camera, lock, running, queue, mainVars,
                 frame, snapshot, key, histVars>>

\* The overlay loop without its "is not None" test: iterating None raises
\* TypeError and run() ends there.
C_ProcessNoneRaises ==
  /\ c_pc = "c_process"
  /\ mask' = <<snapshot["min_val"], snapshot["max_val"]>>
  /\ \E found \in {"none", "some"} :
       /\ lines' = found
       /\ drawn' = (found # "none")
       /\ c_pc' = IF found = "none" THEN "c_done" ELSE "c_render"
  /\ UNCHANGED <<variant, file, camera, config, lock, running, queue,
                 mainVars, frame, snapshot, key, histVars>>

\* mask = cv2.inRange(gray_frame, min_val, max_val); edges = cv2.Canny(..);
\* lines = cv2.HoughLinesP(..), None when no line is found;
\* if lines is not None: cv2.line(frame, ..) for every line
C_Process ==
  /\ c_pc = "c_process"
  /\ mask' = <<snapshot["min_val"], snapshot["max_val"]>>
  /\ \E found \in {"none", "some"} :
       /\ lines' = found
       /\ drawn' = (found # "none")
  /\ c_pc' = "c_render"
  /\ UNCHANGED <<variant, file, camera, config, lock, running, queue,
                 mainVars, frame, snapshot, key, histVars>>

\* run() with the quit branch reduced to break: self.stop() is not called.
C_RenderNoStop ==
  /\ c_pc = "c_render"
  /\ processed' = Append(processed, frame)
  /\ \E k \in {"none", "q"} :
       /\ key' = k
       /\ c_pc' = IF k = "q" THEN "c_done" ELSE "c_loop"
  /\ frame' = 0
  /\ snapshot' = NoFields
  /\ mask' = << >>
  /\ lines' = "unset"
  /\ drawn' = FALSE
  /\ snapAt' = NoFields
  /\ snapVer' = 0
  /\ UNCHANGED <<variant, file, camera, config, lock, queue, mainVars,
                 pushed, published, nSaves, nUpdates, running, pushedAtStop>>

\* stop() written as a toggle: self.running = not self.running.
stop_toggle(r) == ~r

\* FrameProcessor.stop: self.running = False, whatever it was.
stop(r) == FALSE

\* Both cv2.imshow calls (the frame with its overlay, the mask); then
\* if cv2.waitKey(1) & 0xFF == ord('q'): self.stop(); break
\* The locals of the iteration are dead afterwards and are cleared.
C_Render ==
  /\ c_pc = "c_render"
  /\ processed' = Append(processed, frame)
  /\ \E k \in {"none", "q"} :
       /\ key' = k
       /\ IF k = "q"
            THEN /\ running' = stop(running)
                 /\ pushedAtStop' = Len(pushed)
                 /\ c_pc' = "c_done"
            ELSE /\ c_pc' = "c_loop"
                 /\ UNCHANGED <<running, pushedAtStop>>
  /\ frame' = 0
  /\ snapshot' = NoFields
  /\ mask' = << >>
  /\ lines' = "unset"
  /\ drawn' = FALSE
  /\ snapAt' = NoFields
  /\ snapVer' = 0
  /\ UNCHANGED <<variant, file, camera, config, lock, queue, mainVars,
                 pushed, published, nSaves, nUpdates>>

\* ----------------------------------------------------------- specification

MainStep ==
  \/ M_LoadConfig
  \/ M_OpenCamera
  \/ M_Start
  \/ M_Loop
  \/ M_Read
  \/ M_Put
  \/ M_Acquire
  \/ M_Write
  \/ M_Release
  \/ M_Join
  \/ M_ReleaseCamera
  \/ M_Save

ProcStep ==
  \/ C_Loop
  \/ C_Empty
  \/ C_Get
  \/ C_Acquire
  \/ C_Snap
  \/ C_Release
  \/ C_Process
  \/ C_Render

Next == MainStep \/ ProcStep

Spec == Init /\ [][Next]_vars

\* The runs whose termination is checked start without a config.json, from
\* the defaults: the loaded values play no part in the control flow.
FairFiles(v) == {f \in StartFiles(v) : f.kind = "absent"}

FairInit == InitFrom([v \in Variants |-> FairFiles(v)])

\* Both threads are scheduled again and again: a step either of them can
\* take is eventually taken.
FairSpec ==
  FairInit /\ [][Next]_vars /\ WF_vars(MainStep) /\ WF_vars(ProcStep)

\* load_config applied to every config.json of AllFiles.
LoadInit == InitFrom([v \in Variants |-> AllFiles(v)])

LoadNext == M_LoadConfig

LoadSpec == LoadInit /\ [][LoadNext]_vars

TypeOK ==
  /\ variant \in Variants
  /\ lock \in {"free", "main", "proc"}
  /\ running \in BOOLEAN
  /\ captured \in 0..MaxFrames
  /\ Len(queue) <= MaxFrames

\* ================================================================== claims

\* The frames run() has popped so far: those it has rendered, then the one
\* it holds.
Popped == processed \o (IF frame = 0 THEN << >> ELSE <<frame>>)

\* main() has left its loop through the break after a failed camera.read().
LeftLoopOnFailedRead == ret = "fail" /\ m_pc \in {"m_join", "m_release", "m_save", "m_done"}

\* The range the parameter set declares for each field: the two thresholds
\* in 0..255, rho above 0, the other fields not below 0.
InRange(k, x) ==
  CASE k = "min_val" -> 0 <= x /\ x <= 255
    [] k = "max_val" -> 0 <= x /\ x <= 255
    [] k = "rho" -> x > 0
    [] OTHER -> x >= 0

\* config.json holds every key of the variant, each within its declared range.
ValidFile(v, f) ==
  /\ f.kind = "map"
  /\ KeySet(v) \subseteq DOMAIN f.fields
  /\ \A k \in KeySet(v) : InRange(k, f.fields[k])

\* The run has completed shutdown: join returned, camera released, config saved.
ShutDown ==
  /\ m_pc = "m_done"
  /\ c_pc = "c_done"
  /\ camera = "released"
  /\ nSaves = 1

\* C1 (as stated): once running is FALSE, no step pushes a frame onto the
\* queue and no step pops one from it.
C1_NoPushNoPopAfterStop ==
  [][running = FALSE => (pushed' = pushed /\ Popped' = Popped)]_vars

\* C1 (amended): once running is FALSE, no frame is popped any more, and at
\* most one more frame is pushed (the one of the iteration main() was in when
\* the flag was cleared).
C1_AtMostOnePushAfterStop ==
  /\ [](running = FALSE => Len(pushed) <= pushedAtStop + 1)
  /\ [][running = FALSE => Popped' = Popped]_vars

\* C1 witness: running is FALSE and main() has pushed one frame since.
C1_Witness == running = FALSE /\ Len(pushed) = pushedAtStop + 1

\* C2: whenever main() has left its loop because camera.read() failed,
\* running is FALSE.
C2_FailedReadClearsRunning == LeftLoopOnFailedRead => running = FALSE

\* C3: when the very first camera.read() fails, run() processes no frame and
\* the run eventually completes shutdown with the startup values saved.
C3_ZeroFramesShutsDown ==
  /\ [](captured = 0 => processed = << >>)
  /\ (captured = 0 /\ ret = "fail")
       ~> (ShutDown /\ file = save_config(variant, published))

\* C4: when run() reads the quit key it clears running and leaves its loop
\* without popping again; main() then pushes at most the frame of the
\* iteration it is in, the join returns and the run ends with the config
\* saved; run() ends in no other way.
C4_QuitStopsRun ==
  /\ [](key = "q" => running = FALSE /\ c_pc = "c_done")
  /\ [][key = "q" => Popped' = Popped]_vars
  /\ [](key = "q" => Len(pushed) <= pushedAtStop + 1)
  /\ (key = "q") ~> (ShutDown /\ file = save_config(variant, config))
  /\ [](c_pc = "c_done" => key = "q")

\* C4 witness: the quit key was read and the run has shut down.
C4_Witness == key = "q" /\ ShutDown /\ Len(processed) >= 1

\* C5: main() and run() are never inside their critical sections together,
\* and every value run() has read inside the lock is the value that field had
\* in one whole record: the startup config or the record of one update by
\* main(), as it stood when run() took the lock.
C5_SnapshotNotTorn ==
  /\ ~(m_pc \in {"m_write", "m_unlock"} /\ c_pc \in {"c_snap", "c_unlock"})
  /\ \A k \in DOMAIN snapshot : k \in DOMAIN snapAt /\ snapshot[k] = snapAt[k]
  /\ c_pc \in {"c_unlock", "c_process", "c_render"} => snapshot = snapAt

\* C5 witness: run() holds a complete snapshot of an update by main(), and
\* main() has changed the shared record since.
C5_Witness ==
  /\ c_pc = "c_render"
  /\ Len(pushed) >= 2
  /\ snapshot # config
  /\ snapshot # load_config(variant, file)

\* C6: the frames popped so far followed by the queue are the frames pushed
\* so far, which are the captured frames in capture order.
C6_Fifo ==
  /\ Popped \o queue = pushed
  /\ pushed = [i \in 1..Len(pushed) |-> i]

\* C6 witness: two frames rendered while a third waits in the queue.
C6_Witness == Len(processed) = 2 /\ Len(queue) = 1

\* C7: every field run() has read into its snapshot lies in its declared range.
C7_SnapshotInRange == \A k \in DOMAIN snapshot : InRange(k, snapshot[k])

\* C8: load_config gives exactly the defaults for every config.json that is
\* absent, malformed, lacks a key or holds a value out of range.
C8_InvalidFileGivesDefaults ==
  (m_pc = "m_open" /\ ~ValidFile(variant, file)) => config = DefaultConfig(variant)

\* C9: load_config gives exactly the file's values for every valid config.json.
C9_ValidFileLoadedUnchanged ==
  (m_pc = "m_open" /\ ValidFile(variant, file)) => config = file.fields

\* C9 witness: a valid file that differs from the defaults has been loaded.
C9_Witness ==
  /\ m_pc = "m_open"
  /\ ValidFile(variant, file)
  /\ config # DefaultConfig(variant)

\* C10: load_config applied to the file save_config wrote at the end of the
\* run gives the saved parameter values, equal in every field.
C10_SaveLoadRoundTrip ==
  m_pc = "m_done" =>
    load_config(variant, file) = [k \in KeySet(variant) |-> config[k]]

\* C10 witness: a run has saved values that main() published from the
\* trackbars, the clamped rho among them.
C10_Witness ==
  /\ m_pc = "m_done"
  /\ Len(pushed) >= 1
  /\ config["min_val"] = 200
  /\ variant = "ext" => config["rho"] = 1

\* C11: the camera is released only after run() has returned, the config is
\* saved only after that release, and the saved values are the record main()
\* published last (the loaded one when it published none).
C11_SaveAfterJoinAndRelease ==
  /\ camera = "released" => c_pc = "c_done"
  /\ nSaves >= 1 =>
       /\ c_pc = "c_done"
       /\ camera = "released"
       /\ file.kind = "map"
       /\ file.fields = [k \in KeySet(variant) |-> published[k]]

\* C11 witness: the config was saved after two updates by main().
C11_Witness == nSaves = 1 /\ nUpdates >= 2 /\ published # DefaultConfig(variant)

\* C12: running is TRUE until the thread is started, a step never takes it
\* from FALSE back to TRUE, and stop() called when it is FALSE leaves it FALSE.
C12_RunningMonotone ==
  /\ [](c_pc = "c_idle" => running = TRUE)
  /\ [][running = FALSE => running' = FALSE]_vars
  /\ [](running = FALSE => stop(running) = running)

\* C12 witness: running was cleared and main() has run to its end since.
C12_Witness == running = FALSE /\ m_pc = "m_done" /\ Len(pushed) > pushedAtStop

\* C13: when the camera cannot be opened, main() has returned: the thread
\* was never started, no frame was pushed or processed, config.json was not
\* written, and no step of the program follows.
C13_NoCameraNoPipeline ==
  camera = "failed" =>
    /\ m_pc = "m_exit"
    /\ c_pc = "c_idle"
    /\ pushed = << >>
    /\ processed = << >>
    /\ nSaves = 0
    /\ ~ENABLED Next

\* C13 witness: isOpened() was false after a config.json was loaded.
C13_Witness == camera = "failed" /\ config # DefaultConfig(variant)

\* C14: when HoughLinesP finds no line, run() draws nothing and goes on to
\* show the frame and the mask; the step that shows them leaves running
\* alone and returns to the loop head unless the quit key is read.
C14_NoLinesNoStop ==
  /\ [](lines = "none" =>
          (c_pc = "c_render" /\ drawn = FALSE /\ mask # << >> /\ frame # 0))
  /\ [][(lines = "none" /\ c_pc' # c_pc) =>
          /\ processed' = Append(processed, frame)
          /\ key' # "q" => (c_pc' = "c_loop" /\ running' = running)
          /\ running' # running => key' = "q"]_vars

\* C14 witness: a frame without lines is about to be shown, after an
\* earlier frame was shown.
C14_Witness ==
  /\ c_pc = "c_render"
  /\ lines = "none"
  /\ drawn = FALSE
  /\ Len(processed) >= 1
  /\ running = TRUE

\* A record whose threshold band is inverted.
Inverted(cfg) ==
  /\ {"min_val", "max_val"} \subseteq DOMAIN cfg
  /\ cfg["min_val"] > cfg["max_val"]

\* C15: main() stores the two threshold trackbar positions as read, also
\* when min_val > max_val; run() passes the values of its snapshot to
\* inRange unchanged; and with an inverted band main() returns to its loop
\* head after the update and run() returns to its loop head after showing
\* the frame, unless the quit key is read.
C15_InvertedBandAccepted ==
  /\ [][(m_pc = "m_write" /\ <<m_pc, m_i>>' # <<m_pc, m_i>>
            /\ Keys(variant)[m_i] \in {"min_val", "max_val"}) =>
          config'[Keys(variant)[m_i]] = tb_pos']_vars
  /\ [](c_pc = "c_render" =>
          (snapshot = snapAt
             /\ mask = <<snapshot["min_val"], snapshot["max_val"]>>))
  /\ [][(m_pc = "m_unlock" /\ Inverted(config) /\ m_pc' # m_pc) =>
          (m_pc' = "m_loop" /\ published' = config)]_vars
  /\ [][(c_pc = "c_render" /\ Inverted(snapshot) /\ c_pc' # c_pc) =>
          /\ processed' = Append(processed, frame)
          /\ key' # "q" => (c_pc' = "c_loop" /\ running' = running)]_vars

\* C15 witness: the operator's band 200, 50 was published and run() has
\* passed it to inRange.
C15_Witness ==
  /\ c_pc = "c_render"
  /\ mask = <<200, 50>>
  /\ snapVer >= 1
  /\ published["min_val"] = 200
  /\ published["max_val"] = 50

\* C16: whenever run() is about to call frame_queue.get() the queue holds a
\* frame, so the call returns at once; and when run() finds the queue empty
\* it goes back to the test of running with nothing popped or processed.
C16_PopNeverBlocks ==
  /\ [](c_pc = "c_get" => (queue # << >> /\ ENABLED C_Get))
  /\ [][(c_pc = "c_empty" /\ queue = << >> /\ c_pc' # c_pc) =>
          (c_pc' = "c_loop" /\ UNCHANGED <<queue, frame, processed>>)]_vars

\* C16 witness: run() is about to call get() and main() has put a second
\* frame since the emptiness test.
C16_Witness == c_pc = "c_get" /\ Len(queue) = 2 /\ processed = << >>

\* C17: no step of run() changes the shared config, which changes only when
\* main() loads it or writes a trackbar value; and save_config is called at
\* most once, by main() after its loop, when run() has returned.
C17_OnlyMainWritesConfig ==
  /\ [][ProcStep => config' = config]_vars
  /\ [][config' # config => m_pc \in {"m_load", "m_write"}]_vars
  /\ [](nSaves <= 1)
  /\ [][nSaves' # nSaves => (m_pc = "m_save" /\ c_pc = "c_done")]_vars

\* C17 witness: the config was saved once after run() had rendered frames
\* while main() changed the shared record.
C17_Witness ==
  /\ nSaves = 1
  /\ Len(processed) >= 2
  /\ nUpdates >= 2
  /\ config # DefaultConfig(variant)

\* C18: whenever main() is at frame_queue.put the put can be taken, whatever
\* the queue holds and wherever run() is.
C18_PushNeverBlocks == m_pc = "m_put" => ENABLED M_Put

\* C18 witness: every frame the camera delivered is queued and run() has
\* not popped one, so the queue is as long as the stream.
C18_Witness ==
  /\ Len(queue) = MaxFrames
  /\ processed = << >>
  /\ frame = 0
  /\ m_pc = "m_lock"

\* run() holds the lock or has read its snapshot for the frame it holds.
SnapshotTaken == c_pc \in {"c_snap", "c_unlock", "c_process", "c_render"}

\* C19: the snapshot run() takes for the k-th captured frame, k >= 2, is
\* taken when main() has completed at least k - 1 updates; it is never
\* taken from more updates than main() has completed.
C19_StalenessBounded ==
  SnapshotTaken =>
    /\ frame >= 2 => snapVer >= frame - 1
    /\ snapVer <= nUpdates
    /\ snapAt = published \/ snapVer < nUpdates

\* C19 witness: the second frame is processed with exactly the first update,
\* while main() has completed a later one.
C19_Witness ==
  /\ c_pc = "c_render"
  /\ frame = 2
  /\ snapVer = 1
  /\ nUpdates = 2

\* The first frame is processed with the values loaded at startup.
C19_FirstFrameStartup ==
  /\ c_pc = "c_render"
  /\ frame = 1
  /\ snapVer = 0
  /\ snapshot = load_config(variant, file)

\* The first frame is processed with a later update than its own.
C19_FirstFrameLater == c_pc = "c_render" /\ frame = 1 /\ snapVer >= 2

\* The frame main() has read and not yet put on the queue.
MainHolds == IF m_pc = "m_put" THEN {m_frame} ELSE {}

\* The frame run() has popped and not yet shown.
ProcHolds == IF frame = 0 THEN {} ELSE {frame}

Queued == {queue[i] : i \in 1..Len(queue)}

Shown == {processed[i] : i \in 1..Len(processed)}

\* C20: a frame is at any time in exactly one place: held by main() before
\* the put, in the queue, held by run(), or already shown; no frame is
\* queued or shown twice; and main()'s frame variable changes only when
\* camera.read() binds it to a frame never pushed before.
C20_FrameOwnership ==
  /\ [](MainHolds \cap (Queued \cup ProcHolds \cup Shown) = {})
  /\ [](ProcHolds \cap (Queued \cup Shown) = {})
  /\ [](Queued \cap Shown = {})
  /\ [](Cardinality(Queued) = Len(queue))
  /\ [](Cardinality(Shown) = Len(processed))
  /\ [][m_frame' # m_frame =>
          (m_pc = "m_read"
             /\ \A i \in 1..Len(pushed) : pushed[i] # m_frame')]_vars

\* C20 witness: three frames, one held by main(), one queued, one held by
\* run().
C20_Witness ==
  /\ m_pc = "m_put"
  /\ Len(queue) = 1
  /\ frame # 0

====
